---- MODULE Spec2Model ----
(***************************************************************************)
(* Creator matching app (src/creator_identification_1.py).                 *)
(*                                                                         *)
(* The program is a Streamlit script: every user interaction re-executes   *)
(* the script top to bottom, st.stop() ends the run, and st.session_state  *)
(* and the st.cache_resource model outlive the runs.  The model follows    *)
(* one session: pc is the position of the current run in the script.       *)
(*                                                                         *)
(* Texts (file names, briefs, bios) are sequences of one-character         *)
(* strings, so that lower(), endswith(), strip() and + are computed.       *)
(* Similarity scores are kept in units of 1/25 (embeddings are integer     *)
(* vectors of length 5), so cosine similarity is an exact integer.         *)
(***************************************************************************)
EXTENDS Integers, Sequences, FiniteSets, TLC

\* ---------------------------------------------------------------- bounds
\* longest text typed into the campaign brief box
MaxBriefLen == 2
\* most rows of a dataset drawn for the function-level specification
MaxRows == 3
\* largest value the "Number of Top Matches" slider is moved to
MaxTopCount == 2

\* max_value of the slider (line 152)
SliderMax == 50

\* ------------------------------------------------------------------ text
Range(s) == {s[i] : i \in DOMAIN s}

Min(a, b) == IF a <= b THEN a ELSE b

Whitespace == {" ", "\t", "\n"}

RECURSIVE LStrip(_)
LStrip(s) ==
    IF s # <<>> /\ Head(s) \in Whitespace THEN LStrip(Tail(s)) ELSE s

RECURSIVE RStrip(_)
RStrip(s) ==
    IF s # <<>> /\ s[Len(s)] \in Whitespace
    THEN RStrip(SubSeq(s, 1, Len(s) - 1))
    ELSE s

\* str.strip()
Strip(s) == RStrip(LStrip(s))

ToLower ==
    ("A" :> "a") @@ ("B" :> "b") @@ ("C" :> "c") @@ ("D" :> "d") @@
    ("E" :> "e") @@ ("F" :> "f") @@ ("G" :> "g") @@ ("H" :> "h") @@
    ("I" :> "i") @@ ("J" :> "j") @@ ("K" :> "k") @@ ("L" :> "l") @@
    ("M" :> "m") @@ ("N" :> "n") @@ ("O" :> "o") @@ ("P" :> "p") @@
    ("Q" :> "q") @@ ("R" :> "r") @@ ("S" :> "s") @@ ("T" :> "t") @@
    ("U" :> "u") @@ ("V" :> "v") @@ ("W" :> "w") @@ ("X" :> "x") @@
    ("Y" :> "y") @@ ("Z" :> "z")

\* str.lower()
Lower(s) == [i \in 1..Len(s) |-> IF s[i] \in DOMAIN ToLower THEN ToLower[s[i]] ELSE s[i]]

\* str.endswith(suffix)
EndsWith(s, suffix) ==
    /\ Len(suffix) <= Len(s)
    /\ SubSeq(s, Len(s) - Len(suffix) + 1, Len(s)) = suffix

\* all texts over alphabet of length at most n
TextsUpTo(alphabet, n) == UNION {[1..k -> alphabet] : k \in 0..n}

\* ------------------------------------------------------------ data frames
\* A DataFrame is [columns: sequence of column names, rows: sequence of rows],
\* a row a function from the column names to values.
EmptyDf == [columns |-> <<>>, rows |-> <<>>]

ColumnValues(df, c) == [i \in 1..Len(df.rows) |-> df.rows[i][c]]

\* df[c] = vals: an existing column is overwritten in place, a new one appended
SetColumn(df, c, vals) ==
    [columns |-> IF c \in Range(df.columns) THEN df.columns ELSE Append(df.columns, c),
     rows |-> [i \in 1..Len(df.rows) |->
                 [k \in (DOMAIN df.rows[i]) \cup {c} |->
                     IF k = c THEN vals[i] ELSE df.rows[i][k]]]]

\* df.drop(columns=[c])
DropColumn(df, c) ==
    [columns |-> SelectSeq(df.columns, LAMBDA k : k # c),
     rows |-> [i \in 1..Len(df.rows) |->
                 [k \in (DOMAIN df.rows[i]) \ {c} |-> df.rows[i][k]]]]

\* df[df[c] == v]
FilterEq(df, c, v) ==
    [columns |-> df.columns, rows |-> SelectSeq(df.rows, LAMBDA r : r[c] = v)]

\* df.head(n)
HeadRows(df, n) ==
    [columns |-> df.columns, rows |-> SubSeq(df.rows, 1, Min(n, Len(df.rows)))]

\* ------------------------------------------------------- loading (22-41)
RequiredCols == {"name", "bio", "niche", "location", "audience_size"}

CsvSuffix == <<".", "c", "s", "v">>
XlsSuffix == <<".", "x", "l", "s">>
XlsxSuffix == <<".", "x", "l", "s", "x">>

UnsupportedMsg == "Unsupported file format. Upload a CSV or Excel file."
MissingColsMsg == "Dataset must include the following columns: "
ParseErrorMsg == "parser error"

\* faulty variant of ParserFor: the extension is compared without lower-casing
ParserFor_CaseSensitive(name) ==
    IF EndsWith(name, CsvSuffix) THEN "read_csv"
    ELSE IF EndsWith(name, XlsSuffix) \/ EndsWith(name, XlsxSuffix) THEN "read_excel"
    ELSE "none"

\* load_dataset's choice of parser from the lower-cased file name
ParserFor(name) ==
    LET file_name == Lower(name)
    IN  IF EndsWith(file_name, CsvSuffix) THEN "read_csv"
        ELSE IF EndsWith(file_name, XlsSuffix) \/ EndsWith(file_name, XlsxSuffix) THEN "read_excel"
        ELSE "none"

\* pd.read_csv / pd.read_excel: a file's bytes are a delimited text ("csv"),
\* a workbook ("excel") or neither ("binary"); the parser for the other kind raises.
ReadCsv(content) ==
    IF content.fmt = "csv"
    THEN [ok |-> TRUE, df |-> [columns |-> content.columns, rows |-> content.rows], error |-> ""]
    ELSE [ok |-> FALSE, df |-> EmptyDf, error |-> ParseErrorMsg]

ReadExcel(content) ==
    IF content.fmt = "excel"
    THEN [ok |-> TRUE, df |-> [columns |-> content.columns, rows |-> content.rows], error |-> ""]
    ELSE [ok |-> FALSE, df |-> EmptyDf, error |-> ParseErrorMsg]

\* load_dataset(uploaded_file): the frame or the exception, and the parser called
LoadDataset(file) ==
    LET parser == ParserFor(file.name)
        r == IF parser = "read_csv" THEN ReadCsv(file.content)
             ELSE IF parser = "read_excel" THEN ReadExcel(file.content)
             ELSE [ok |-> FALSE, df |-> EmptyDf, error |-> UnsupportedMsg]
    IN  [ok |-> r.ok, df |-> r.df, error |-> r.error, names |-> {},
         called |-> IF parser = "none" THEN {} ELSE {parser}]

\* faulty variant of ValidateDataset: one required column is enough
ValidateDataset_AnyColumn(df, required_cols) ==
    IF required_cols \cap Range(df.columns) # {}
    THEN [ok |-> TRUE, error |-> "", names |-> {}]
    ELSE [ok |-> FALSE, error |-> MissingColsMsg, names |-> required_cols]

\* validate_dataset(df, required_cols): the error text ends with the required set
ValidateDataset(df, required_cols) ==
    IF required_cols \subseteq Range(df.columns)
    THEN [ok |-> TRUE, error |-> "", names |-> {}]
    ELSE [ok |-> FALSE, error |-> MissingColsMsg, names |-> required_cols]

\* ---------------------------------------------- embedding and scoring (62-83)
QueryPrefix ==
    <<"R", "e", "p", "r", "e", "s", "e", "n", "t", " ",
       "t", "h", "i", "s", " ", "s", "e", "n", "t", "e",
       "n", "c", "e", " ", "f", "o", "r", " ", "s", "e",
       "a", "r", "c", "h", "i", "n", "g", " ", "r", "e",
       "l", "e", "v", "a", "n", "t", " ", "p", "a", "s",
       "s", "a", "g", "e", "s", ":", " ">>

\* The embedding model is a fixed function from texts to vectors of one length
\* (here length 5 in the plane, so that normalising is exact).
Directions ==
    << <<5, 0>>, <<4, 3>>, <<3, 4>>, <<0, 5>>, <<-3, 4>>, <<-4, 3>>, <<-5, 0>> >>

CharCode(c) == IF c = "x" THEN 1 ELSE IF c = "y" THEN 2 ELSE IF c \in Whitespace THEN 3 ELSE 5

RECURSIVE CodeSum(_, _)
CodeSum(s, i) == IF i = 0 THEN 0 ELSE i * CharCode(s[i]) + CodeSum(s, i - 1)

TextCode(s) == CodeSum(s, Len(s))

\* model.encode(text, normalize_embeddings=True)
Encode(text) == Directions[(TextCode(text) % Len(Directions)) + 1]

Dot(a, b) == a[1] * b[1] + a[2] * b[2]

\* util.cos_sim(a, b) for vectors of length 5, in units of 1/25
CosSim(a, b) == Dot(a, b)

\* faulty variant of Similarities: the scores come out in reverse row order
Similarities_Reversed(bio_texts, campaign_brief) ==
    LET n == Len(bio_texts)
        q == Encode(QueryPrefix \o campaign_brief)
    IN  [i \in 1..n |-> CosSim(q, Encode(bio_texts[n + 1 - i]))]

\* lines 68-80: one score per bio, in the order of the bios
Similarities(bio_texts, campaign_brief) ==
    LET bio_embeddings == [i \in 1..Len(bio_texts) |-> Encode(bio_texts[i])]
        query == QueryPrefix \o campaign_brief
        query_embedding == Encode(query)
    IN  [i \in 1..Len(bio_texts) |-> CosSim(query_embedding, bio_embeddings[i])]

\* embed_and_score(creators_df, campaign_brief, model): out is the returned
\* frame, arg the caller's frame after the call (line 70 copies before writing)
EmbedAndScore(df, campaign_brief) ==
    LET bio_texts == ColumnValues(df, "bio")
        bio_embeddings == [i \in 1..Len(bio_texts) |-> Encode(bio_texts[i])]
        copy == df
        with_emb == SetColumn(copy, "bio_embedding", bio_embeddings)
        with_score == SetColumn(with_emb, "similarity_score",
                                Similarities(bio_texts, campaign_brief))
    IN  [out |-> DropColumn(with_score, "bio_embedding"), arg |-> df]

\* -------------------------------------------------- ranking (147-160)
\* the rearrangements of n rows
Permutations1(n) == Permutations(1..n)

Reorder(df, p) == [columns |-> df.columns, rows |-> [i \in 1..Len(df.rows) |-> df.rows[p[i]]]]

NonIncreasing(rows) ==
    \A i \in 1..Len(rows) - 1 : rows[i].similarity_score >= rows[i + 1].similarity_score

\* faulty variant of SortValuesDesc: ascending order
SortValuesDesc_Ascending(df) ==
    {Reorder(df, p) : p \in {q \in Permutations1(Len(df.rows)) :
        \A i \in 1..Len(df.rows) - 1 :
            df.rows[q[i]].similarity_score <= df.rows[q[i + 1]].similarity_score}}

\* df.sort_values(by="similarity_score", ascending=False): kind defaults to
\* "quicksort", which pandas documents as not stable, so every descending
\* arrangement of the rows is a possible result.
SortValuesDesc(df) ==
    {Reorder(df, p) : p \in {q \in Permutations1(Len(df.rows)) :
        \A i \in 1..Len(df.rows) - 1 :
            df.rows[q[i]].similarity_score >= df.rows[q[i + 1]].similarity_score}}

\* sorted(df[c].dropna().unique()), as the set of options
UniqueValues(df, c) == {df.rows[i][c] : i \in 1..Len(df.rows)}

\* lines 154-158
ApplyFilters(df, niche, location) ==
    LET by_niche == IF niche # "All" THEN FilterEq(df, "niche", niche) ELSE df
    IN  IF location # "All" THEN FilterEq(by_niche, "location", location) ELSE by_niche

\* display_creator_card(row): the fields the card shows (scores are multiples
\* of 1/25, which the .4f format renders exactly)
Card(row) ==
    [name |-> row.name, niche |-> row.niche, location |-> row.location,
     audience_size |-> row.audience_size, similarity_score |-> row.similarity_score,
     bio |-> row.bio]

\* df.to_csv(index=False): the header line, then one line per row
ToCsv(df) ==
    <<df.columns>> \o
    [i \in 1..Len(df.rows) |-> [j \in 1..Len(df.columns) |-> df.rows[i][df.columns[j]]]]

\* ------------------------------------------------------------ the inputs
BaseColumns == <<"name", "bio", "niche", "location", "audience_size">>

\* the creators the datasets are made of: the first two share a bio, and
\* with it a score
Creators ==
    { [name |-> "A", bio |-> <<"x">>, niche |-> "fashion", location |-> "IN", audience_size |-> "10k"],
      [name |-> "B", bio |-> <<"x">>, niche |-> "tech", location |-> "IN", audience_size |-> "20k"],
      [name |-> "C", bio |-> <<"y">>, niche |-> "fashion", location |-> "US", audience_size |-> "30k"] }

CreatorA == CHOOSE c \in Creators : c.name = "A"
CreatorB == CHOOSE c \in Creators : c.name = "B"
CreatorC == CHOOSE c \in Creators : c.name = "C"

\* the rows of a file with the given columns: a column outside the base five
\* holds a number
RowsFor(columns, creators) ==
    [i \in 1..Len(creators) |->
        [c \in Range(columns) |-> IF c \in DOMAIN creators[i] THEN creators[i][c] ELSE 7]]

FileContent(fmt, columns, creators) ==
    [fmt |-> fmt, columns |-> columns, rows |-> RowsFor(columns, creators)]

NoContent == [fmt |-> "none", columns |-> <<>>, rows |-> <<>>]

\* uploaded_file is None
NoFile == [name |-> <<>>, content |-> NoContent]

\* the files of the session-level specification
Contents ==
    { FileContent("csv", BaseColumns, <<CreatorA, CreatorB, CreatorC>>),
      FileContent("csv", BaseColumns \o <<"followers">>, <<CreatorC, CreatorA>>),
      FileContent("excel", BaseColumns, <<CreatorB, CreatorC>>),
      FileContent("csv", <<"name", "niche", "location", "audience_size">>, <<CreatorA>>),
      FileContent("binary", <<>>, <<>>) }

FileNames ==
    { <<"d", ".", "c", "s", "v">>, <<"D", ".", "C", "s", "v">>,
      <<"d", ".", "X", "L", "S", "X">>, <<"d", ".", "x", "l", "s">>,
      <<"d", ".", "t", "x", "t">>, <<"c", "s", "v">>, <<"d", ".", "c", "s", "v", ".", "T", "X", "T">> }

Uploads == [name : FileNames, content : Contents]

\* what can stand in the campaign brief box
Briefs == TextsUpTo({" ", "x"}, MaxBriefLen)

\* hashlib.sha256(bytes).hexdigest(): distinct contents have distinct digests
Sha256(content) == <<"sha256", content>>

\* ------------------------------------------------------------- the state
VARIABLES
    pc,               \* position of the current script run
    session_state,    \* st.session_state: keys present, and their values
    model_cached,     \* st.cache_resource holds the loaded model
    uploaded_file,    \* value of the file uploader in this run
    campaign_brief,   \* value of the text area (kept by the form between runs)
    submit_button,    \* value of the form's submit button in this run
    creators_df,      \* line 101
    scored_df,        \* lines 132, 140
    selected_niche, selected_location, top_count,   \* lines 150-152
    filtered_df,      \* lines 154-158
    top_creators,     \* line 160
    displayed,        \* the cards written in Step 5
    csv_data,         \* line 176
    msg,              \* the last st.info / st.success / st.error / st.warning
    invoked,          \* functions called so far in this run
    failed_attempt,   \* a recomputation failed and none has succeeded since
    cache_matched     \* the stored key equalled this run's key when line 128 ran

vars == <<pc, session_state, model_cached, uploaded_file, campaign_brief, submit_button,
          creators_df, scored_df, selected_niche, selected_location, top_count,
          filtered_df, top_creators, displayed, csv_data, msg, invoked, failed_attempt,
          cache_matched>>

NoMsg == [kind |-> "none", text |-> "", names |-> {}]

EmptySession ==
    [keys |-> {}, scored_df |-> EmptyDf, last_file_hash |-> Sha256(NoContent), last_brief |-> <<>>]

\* the state of a run before its first line
FreshRun ==
    /\ uploaded_file = NoFile
    /\ submit_button = FALSE
    /\ creators_df = EmptyDf
    /\ scored_df = EmptyDf
    /\ selected_niche = "All"
    /\ selected_location = "All"
    /\ top_count = 1
    /\ filtered_df = EmptyDf
    /\ top_creators = EmptyDf
    /\ displayed = <<>>
    /\ csv_data = <<>>
    /\ msg = NoMsg
    /\ invoked = {}
    /\ cache_matched = FALSE

Init ==
    /\ pc = "upload"
    /\ session_state = EmptySession
    /\ model_cached = FALSE
    /\ campaign_brief = <<>>
    /\ failed_attempt = FALSE
    /\ FreshRun

\* ---------------------------------------------------- the cache (125-141)
SessionHas(sess, key) == key \in sess.keys

\* faulty variant of NeedsRecompute: the submit button is ignored
NeedsRecompute_NoSubmit(submit, sess, file_hash, brief) ==
    \/ ~SessionHas(sess, "scored_df")
    \/ ~(SessionHas(sess, "last_file_hash") /\ sess.last_file_hash = file_hash)
    \/ ~(SessionHas(sess, "last_brief") /\ sess.last_brief = brief)

\* faulty variant of NeedsRecompute: the cache is never used
NeedsRecompute_Always(submit, sess, file_hash, brief) == TRUE

\* faulty variant of NeedsRecompute: the brief is not part of the key
NeedsRecompute_NoBrief(submit, sess, file_hash, brief) ==
    \/ submit
    \/ ~SessionHas(sess, "scored_df")
    \/ ~(SessionHas(sess, "last_file_hash") /\ sess.last_file_hash = file_hash)

\* the condition of line 128; session_state.get(key) is None, and so differs
\* from any hash or brief, when the key is absent
NeedsRecompute(submit, sess, file_hash, brief) ==
    \/ submit
    \/ ~SessionHas(sess, "scored_df")
    \/ ~(SessionHas(sess, "last_file_hash") /\ sess.last_file_hash = file_hash)
    \/ ~(SessionHas(sess, "last_brief") /\ sess.last_brief = brief)

\* lines 133-135
SessionAfterSuccess(sess, df, file_hash, brief) ==
    [keys |-> sess.keys \cup {"scored_df", "last_file_hash", "last_brief"},
     scored_df |-> df, last_file_hash |-> file_hash, last_brief |-> brief]

\* faulty variant of SessionAfterFailure: the key is stored before scoring
SessionAfterFailure_KeyFirst(sess, file_hash, brief) ==
    [keys |-> sess.keys \cup {"last_file_hash", "last_brief"},
     scored_df |-> sess.scored_df, last_file_hash |-> file_hash, last_brief |-> brief]

\* lines 130-138 when load_model or embed_and_score raises: the three
\* assignments come after both calls, so none has run
SessionAfterFailure(sess, file_hash, brief) == sess

\* faulty variant of IsBlank: the brief is compared without trimming
IsBlank_Raw(text) == text = <<>>

\* line 117
IsBlank(text) == Strip(text) = <<>>

Message(kind, text) == [kind |-> kind, text |-> text, names |-> {}]

\* ------------------------------------------------------------ the script
Kept == <<session_state, model_cached, campaign_brief, failed_attempt>>

Results == <<selected_niche, selected_location, top_count, filtered_df, top_creators,
             displayed, csv_data>>

\* the session holds a result stored under this run's file hash and trimmed brief
KeyMatches ==
    /\ session_state.keys = {"scored_df", "last_file_hash", "last_brief"}
    /\ session_state.last_file_hash = Sha256(uploaded_file.content)
    /\ session_state.last_brief = Strip(campaign_brief)

\* an interaction re-executes the script from its first line
Rerun ==
    /\ pc \in {"done", "stopped"}
    /\ pc' = "upload"
    /\ uploaded_file' = NoFile
    /\ submit_button' = FALSE
    /\ creators_df' = EmptyDf
    /\ scored_df' = EmptyDf
    /\ selected_niche' = "All"
    /\ selected_location' = "All"
    /\ top_count' = 1
    /\ filtered_df' = EmptyDf
    /\ top_creators' = EmptyDf
    /\ displayed' = <<>>
    /\ csv_data' = <<>>
    /\ msg' = NoMsg
    /\ invoked' = {}
    /\ cache_matched' = FALSE
    /\ UNCHANGED Kept

\* lines 92-95
FileUploader ==
    /\ pc = "upload"
    /\ \E f \in Uploads \cup {NoFile} :
         /\ uploaded_file' = f
         /\ IF f = NoFile
            THEN /\ msg' = Message("info", "Please upload your dataset to get started.")
                 /\ pc' = "stopped"
            ELSE /\ msg' = msg
                 /\ pc' = "step1"
    /\ UNCHANGED <<Kept, submit_button, creators_df, scored_df, Results, invoked, cache_matched>>

\* lines 100-107
Step1 ==
    /\ pc = "step1"
    /\ LET loaded == LoadDataset(uploaded_file)
           checked == ValidateDataset(loaded.df, RequiredCols)
       IN  /\ invoked' = invoked \cup loaded.called
           /\ IF ~loaded.ok
              THEN /\ msg' = [kind |-> "error", text |-> loaded.error, names |-> loaded.names]
                   /\ creators_df' = creators_df
                   /\ pc' = "stopped"
              ELSE IF ~checked.ok
              THEN /\ msg' = [kind |-> "error", text |-> checked.error, names |-> checked.names]
                   /\ creators_df' = loaded.df
                   /\ pc' = "stopped"
              ELSE /\ msg' = Message("success", "Dataset loaded successfully")
                   /\ creators_df' = loaded.df
                   /\ pc' = "step2"
    /\ UNCHANGED <<Kept, uploaded_file, submit_button, scored_df, Results, cache_matched>>

\* lines 113-119: inside the form the text area hands over a new text only
\* in the run the submit button starts
Step2 ==
    /\ pc = "step2"
    /\ \E submit \in BOOLEAN, text \in Briefs :
         /\ submit \/ text = campaign_brief
         /\ submit_button' = submit
         /\ campaign_brief' = text
         /\ IF IsBlank(text)
            THEN /\ msg' = Message("info", "Please enter a campaign brief to find matches.")
                 /\ pc' = "stopped"
            ELSE /\ msg' = msg
                 /\ pc' = "step3"
    /\ UNCHANGED <<session_state, model_cached, failed_attempt, uploaded_file, creators_df,
                   scored_df, Results, invoked, cache_matched>>

\* lines 128-135: the recomputation succeeds
Step3Recompute ==
    /\ pc = "step3"
    /\ LET file_hash == Sha256(uploaded_file.content)
           brief == Strip(campaign_brief)
           call == EmbedAndScore(creators_df, brief)
       IN  /\ NeedsRecompute(submit_button, session_state, file_hash, brief)
           /\ invoked' = invoked \cup {"load_model", "embed_and_score"}
           /\ model_cached' = TRUE
           /\ creators_df' = call.arg
           /\ scored_df' = call.out
           /\ session_state' = SessionAfterSuccess(session_state, call.out, file_hash, brief)
    /\ cache_matched' = KeyMatches
    /\ failed_attempt' = FALSE
    /\ pc' = "step4"
    /\ UNCHANGED <<campaign_brief, uploaded_file, submit_button, Results, msg>>

\* lines 128-138: load_model (not yet cached) or embed_and_score raises
Step3Fail ==
    /\ pc = "step3"
    /\ LET file_hash == Sha256(uploaded_file.content)
           brief == Strip(campaign_brief)
       IN  /\ NeedsRecompute(submit_button, session_state, file_hash, brief)
           /\ session_state' = SessionAfterFailure(session_state, file_hash, brief)
    /\ \E raised_in \in {"load_model", "embed_and_score"} :
         /\ raised_in = "load_model" => ~model_cached
         /\ model_cached' = (model_cached \/ raised_in = "embed_and_score")
         /\ invoked' = invoked \cup {"load_model"} \cup
                         (IF raised_in = "embed_and_score" THEN {"embed_and_score"} ELSE {})
    /\ msg' = Message("error", "Error during embedding and scoring")
    /\ cache_matched' = KeyMatches
    /\ failed_attempt' = TRUE
    /\ pc' = "stopped"
    /\ UNCHANGED <<campaign_brief, uploaded_file, submit_button, creators_df, scored_df, Results>>

\* lines 139-141: the cached result is used
Step3Cached ==
    /\ pc = "step3"
    /\ ~NeedsRecompute(submit_button, session_state, Sha256(uploaded_file.content),
                       Strip(campaign_brief))
    /\ scored_df' = session_state.scored_df
    /\ msg' = Message("info", "Using cached embedding results.")
    /\ cache_matched' = KeyMatches
    /\ pc' = "step4"
    /\ UNCHANGED <<Kept, uploaded_file, submit_button, creators_df, Results, invoked>>

\* lines 146-160: the sidebar widgets, the filters, the sort and the cut
Step4 ==
    /\ pc = "step4"
    /\ \E niche \in {"All"} \cup UniqueValues(scored_df, "niche"),
          location \in {"All"} \cup UniqueValues(scored_df, "location"),
          count \in 1..Min(MaxTopCount, SliderMax) :
         LET filtered == ApplyFilters(scored_df, niche, location)
         IN  /\ selected_niche' = niche
             /\ selected_location' = location
             /\ top_count' = count
             /\ filtered_df' = filtered
             /\ \E sorted \in SortValuesDesc(filtered) :
                  top_creators' = HeadRows(sorted, count)
    /\ pc' = "step5"
    /\ UNCHANGED <<Kept, uploaded_file, submit_button, creators_df, scored_df, displayed,
                   csv_data, msg, invoked, cache_matched>>

\* lines 165-170: a warning, or one card per row
Step5 ==
    /\ pc = "step5"
    /\ IF top_creators.rows = <<>>
       THEN /\ msg' = Message("warning", "No matching creators found.")
            /\ displayed' = <<>>
       ELSE /\ msg' = msg
            /\ displayed' = [i \in 1..Len(top_creators.rows) |-> Card(top_creators.rows[i])]
    /\ pc' = "step6"
    /\ UNCHANGED <<Kept, uploaded_file, submit_button, creators_df, scored_df, selected_niche,
                   selected_location, top_count, filtered_df, top_creators, csv_data, invoked,
                   cache_matched>>

\* lines 175-177: the export
Step6 ==
    /\ pc = "step6"
    /\ csv_data' = ToCsv(top_creators)
    /\ pc' = "done"
    /\ UNCHANGED <<Kept, uploaded_file, submit_button, creators_df, scored_df, selected_niche,
                   selected_location, top_count, filtered_df, top_creators, displayed, msg,
                   invoked, cache_matched>>

Next ==
    \/ Rerun
    \/ FileUploader
    \/ Step1
    \/ Step2
    \/ Step3Recompute
    \/ Step3Fail
    \/ Step3Cached
    \/ Step4
    \/ Step5
    \/ Step6

Spec == Init /\ [][Next]_vars

\* ------------------------------------------- scoring and ranking on their own
\* the columns of the datasets scored: the required five, and one more column
ScoredColumns ==
    { BaseColumns, BaseColumns \o <<"followers">>,
      BaseColumns \o <<"bio_embedding">>, BaseColumns \o <<"similarity_score">>,
      <<"similarity_score">> \o BaseColumns }

ScoredInputs ==
    { FileContent("csv", columns, creators) :
        columns \in ScoredColumns,
        creators \in UNION {[1..n -> Creators] : n \in 0..MaxRows} }

\* a first run that has come to line 125 with any of the datasets and briefs
InitScoring ==
    /\ pc = "step3"
    /\ session_state = EmptySession
    /\ model_cached = FALSE
    /\ failed_attempt = FALSE
    /\ cache_matched = FALSE
    /\ \E content \in ScoredInputs :
         /\ uploaded_file = [name |-> <<"d", ".", "c", "s", "v">>, content |-> content]
         /\ creators_df = [columns |-> content.columns, rows |-> content.rows]
    /\ campaign_brief \in {b \in Briefs : ~IsBlank(b)}
    /\ submit_button = TRUE
    /\ scored_df = EmptyDf
    /\ selected_niche = "All"
    /\ selected_location = "All"
    /\ top_count = 1
    /\ filtered_df = EmptyDf
    /\ top_creators = EmptyDf
    /\ displayed = <<>>
    /\ csv_data = <<>>
    /\ msg = Message("success", "Dataset loaded successfully")
    /\ invoked = {"read_csv"}

NextScoring ==
    \/ Step3Recompute
    \/ Step4

SpecScoring == InitScoring /\ [][NextScoring]_vars

\* ------------------------------------------------------------ properties
AllKeys == {"scored_df", "last_file_hash", "last_brief"}

\* the run has reached the filters, the cards or the export
Showing == pc \in {"step4", "step5", "step6", "done"}

NothingShown ==
    /\ top_creators = EmptyDf
    /\ displayed = <<>>
    /\ csv_data = <<>>

NothingShownNext ==
    /\ top_creators' = EmptyDf
    /\ displayed' = <<>>
    /\ csv_data' = <<>>

\* C1: cache hit.  A run that comes to Step 3 without a recompute request,
\* with a stored result whose hash is that of the uploaded bytes and whose
\* brief is the trimmed current brief, does not call embed_and_score, leaves
\* the three session entries as they are and goes on with the stored frame;
\* the key is the trimmed brief, so surrounding whitespace does not matter.
C1_CacheHit ==
    [][ (/\ pc = "step3"
         /\ ~submit_button
         /\ session_state.keys = AllKeys
         /\ session_state.last_file_hash = Sha256(uploaded_file.content)
         /\ session_state.last_brief = Strip(campaign_brief))
        => (/\ pc' = "step4"
            /\ "embed_and_score" \notin invoked'
            /\ "load_model" \notin invoked'
            /\ session_state' = session_state
            /\ scored_df' = session_state.scored_df) ]_vars

\* a cache hit for a brief typed with surrounding whitespace, shown to the end
C1_Witness ==
    /\ pc = "done"
    /\ ~submit_button
    /\ cache_matched
    /\ "embed_and_score" \notin invoked
    /\ campaign_brief # session_state.last_brief
    /\ scored_df = session_state.scored_df
    /\ top_creators.rows # <<>>

\* C2: forced recompute.  A run that comes to Step 3 with the submit button
\* set recomputes whatever the cache holds: the model is asked for, and unless
\* the attempt raises, embed_and_score runs on the current dataset and trimmed
\* brief and its result and the current key replace the three session entries.
C2_ForcedRecompute ==
    [][ (pc = "step3" /\ submit_button)
        => (/\ "load_model" \in invoked'
            /\ pc' \in {"step4", "stopped"}
            /\ pc' = "stopped" => msg'.kind = "error"
            /\ pc' = "step4" =>
                 /\ "embed_and_score" \in invoked'
                 /\ scored_df' = EmbedAndScore(creators_df, Strip(campaign_brief)).out
                 /\ session_state' =
                      [keys |-> AllKeys, scored_df |-> scored_df',
                       last_file_hash |-> Sha256(uploaded_file.content),
                       last_brief |-> Strip(campaign_brief)]) ]_vars

\* a recomputation that ran although the stored key was the current one
C2_Witness ==
    /\ pc = "step4"
    /\ submit_button
    /\ cache_matched
    /\ "embed_and_score" \in invoked
    /\ session_state.scored_df = scored_df

\* C3: a failed recomputation keeps the cache.  When Step 3 ends the run, the
\* session entries are what they were, an error is reported and nothing is
\* filtered, shown or exported; a later run without a recompute request whose
\* key is the stored one goes on with the stored result.
C3_FailureKeepsCache ==
    /\ [][ (pc = "step3" /\ pc' = "stopped")
           => (/\ session_state' = session_state
               /\ msg'.kind = "error"
               /\ scored_df' = EmptyDf
               /\ NothingShownNext) ]_vars
    /\ [][ (/\ pc = "step3"
            /\ failed_attempt
            /\ ~submit_button
            /\ session_state.keys = AllKeys
            /\ session_state.last_file_hash = Sha256(uploaded_file.content)
            /\ session_state.last_brief = Strip(campaign_brief))
           => (pc' = "step4" /\ scored_df' = session_state.scored_df
                             /\ session_state' = session_state) ]_vars

\* after a failed attempt, a later run shows the result stored before it
C3_Witness ==
    /\ pc = "done"
    /\ failed_attempt
    /\ cache_matched
    /\ ~submit_button
    /\ scored_df = session_state.scored_df
    /\ displayed # <<>>

\* C4: no stale result.  In every run that reaches the filters, the frame in
\* use is the scoring of the uploaded file's dataset with the trimmed brief.
C4_NeverStale ==
    Showing =>
        /\ creators_df = [columns |-> uploaded_file.content.columns,
                          rows |-> uploaded_file.content.rows]
        /\ scored_df = EmbedAndScore(creators_df, Strip(campaign_brief)).out
        /\ Len(scored_df.rows) = Len(uploaded_file.content.rows)
        /\ \A i \in 1..Len(scored_df.rows) :
             scored_df.rows[i].similarity_score =
                 CosSim(Encode(QueryPrefix \o Strip(campaign_brief)),
                        Encode(uploaded_file.content.rows[i].bio))

\* a stored result is used after a failed attempt, for the file and brief it
\* was computed from
C4_Witness ==
    /\ pc = "done"
    /\ cache_matched
    /\ "embed_and_score" \notin invoked
    /\ failed_attempt
    /\ Len(scored_df.rows) > 1

Score(row) == row.similarity_score

\* the stable descending order: higher score first, equal scores by position
StableOrder(df) ==
    CHOOSE p \in Permutations1(Len(df.rows)) :
        \A i, j \in 1..Len(df.rows) :
            i < j => \/ Score(df.rows[p[i]]) > Score(df.rows[p[j]])
                     \/ Score(df.rows[p[i]]) = Score(df.rows[p[j]]) /\ p[i] < p[j]

Ranked == pc \in {"step5", "step6", "done"}

\* C5 as stated: the first N rows of the descending sort are min(N, rows) rows,
\* the highest-scoring ones in non-increasing order, rows of equal score in
\* their input order.
C5_StableRanking ==
    Ranked => top_creators = HeadRows(Reorder(filtered_df, StableOrder(filtered_df)), top_count)

\* C5 amended: the first N rows of the descending sort are min(N, rows) rows
\* of the filtered frame, in non-increasing score order, and no row left out
\* scores higher than a row kept; the order of rows of equal score is any.
C5_Ranking ==
    Ranked =>
        LET n == Len(filtered_df.rows)
            k == Min(top_count, n)
        IN  /\ top_creators.columns = filtered_df.columns
            /\ Len(top_creators.rows) = k
            /\ NonIncreasing(top_creators.rows)
            /\ \E p \in Permutations1(n) :
                 /\ \A i \in 1..k : top_creators.rows[i] = filtered_df.rows[p[i]]
                 /\ \A i \in 1..k, j \in (k + 1)..n :
                      Score(filtered_df.rows[p[j]]) <= Score(top_creators.rows[i])

\* a cut below the number of rows, with two rows of equal score and a third
\* row that scores differently
C5_Witness ==
    /\ pc = "step5"
    /\ top_count < Len(filtered_df.rows)
    /\ \E i, j \in 1..Len(filtered_df.rows) :
         /\ i # j
         /\ filtered_df.rows[i] # filtered_df.rows[j]
         /\ Score(filtered_df.rows[i]) = Score(filtered_df.rows[j])
    /\ \E i, j \in 1..Len(filtered_df.rows) :
         Score(filtered_df.rows[i]) < Score(filtered_df.rows[j])

\* C6: for a dataset with rows, embed_and_score returns as many records as it
\* was given, record i being input record i with the similarity of the
\* prefixed brief and record i's bio.
C6_OneScorePerRecord ==
    (pc = "step4" /\ "embed_and_score" \in invoked /\ creators_df.rows # <<>>) =>
        /\ Len(scored_df.rows) = Len(creators_df.rows)
        /\ \A i \in 1..Len(creators_df.rows) :
             /\ scored_df.rows[i].similarity_score =
                    CosSim(Encode(QueryPrefix \o Strip(campaign_brief)),
                           Encode(creators_df.rows[i].bio))
             /\ \A c \in RequiredCols : scored_df.rows[i][c] = creators_df.rows[i][c]

\* a scored dataset whose first and last records score differently
C6_Witness ==
    /\ pc = "step4"
    /\ "embed_and_score" \in invoked
    /\ Len(scored_df.rows) > 1
    /\ Score(scored_df.rows[1]) # Score(scored_df.rows[Len(scored_df.rows)])
    /\ creators_df.rows[1].bio # creators_df.rows[Len(creators_df.rows)].bio

\* the run was ended by Step 1 because a required column is missing
MissingColumnsHalt == pc = "stopped" /\ msg.text = MissingColsMsg

\* C7: a parsed dataset lacking a required column ends the run in Step 1 with
\* an error that names the missing columns, before the brief, scoring, display
\* or export and with the session entries as they were; a dataset with the
\* five columns, with or without others, goes on to Step 2.
C7_MissingColumns ==
    /\ [][ (/\ pc = "step1"
            /\ \/ ParserFor(uploaded_file.name) = "read_csv" /\ uploaded_file.content.fmt = "csv"
               \/ ParserFor(uploaded_file.name) = "read_excel" /\ uploaded_file.content.fmt = "excel")
           => IF RequiredCols \subseteq Range(uploaded_file.content.columns)
              THEN pc' = "step2" /\ creators_df'.columns = uploaded_file.content.columns
              ELSE /\ pc' = "stopped"
                   /\ msg'.kind = "error"
                   /\ (RequiredCols \ Range(uploaded_file.content.columns)) \subseteq msg'.names
                   /\ session_state' = session_state
                   /\ campaign_brief' = campaign_brief
                   /\ scored_df' = EmptyDf
                   /\ NothingShownNext ]_vars
    /\ [](MissingColumnsHalt =>
            /\ NothingShown
            /\ scored_df = EmptyDf
            /\ invoked \cap {"load_model", "embed_and_score"} = {})

\* a file without the bio column ended a run of a session that holds a result
C7_Witness ==
    /\ MissingColumnsHalt
    /\ "bio" \notin Range(creators_df.columns)
    /\ "bio" \in msg.names
    /\ session_state.keys = AllKeys

\* C8: a file whose lower-cased name ends in none of .csv, .xls, .xlsx ends
\* the run in Step 1 with the unsupported-format error, no parser called and
\* the session entries as they were; a name ending in .csv goes to the
\* delimited parser, one ending in .xls or .xlsx to the spreadsheet parser,
\* whatever the case of its letters.
C8_UnsupportedFormat ==
    [][ pc = "step1" =>
          LET name == Lower(uploaded_file.name)
              csv == EndsWith(name, <<".", "c", "s", "v">>)
              excel == \/ EndsWith(name, <<".", "x", "l", "s">>)
                       \/ EndsWith(name, <<".", "x", "l", "s", "x">>)
          IN  /\ csv => invoked' = invoked \cup {"read_csv"}
              /\ (~csv /\ excel) => invoked' = invoked \cup {"read_excel"}
              /\ (~csv /\ ~excel) =>
                   /\ invoked' = invoked
                   /\ pc' = "stopped"
                   /\ msg' = [kind |-> "error", text |-> UnsupportedMsg, names |-> {}]
                   /\ session_state' = session_state
                   /\ scored_df' = EmptyDf
                   /\ NothingShownNext ]_vars

\* a name with upper-case letters reached a parser, in a run that went on
C8_UpperCaseParsed ==
    /\ pc = "step2"
    /\ uploaded_file.name # Lower(uploaded_file.name)
    /\ invoked \cap {"read_csv", "read_excel"} # {}

\* an unsupported name ended a run of a session that holds a result
C8_Witness ==
    /\ pc = "stopped"
    /\ msg.text = UnsupportedMsg
    /\ invoked = {}
    /\ session_state.keys = AllKeys

\* C9: a brief that is blank once trimmed ends the run in Step 2, also when
\* the submit button is set: the model is not asked for, embed_and_score is
\* not called, nothing is shown or exported and the session entries are as
\* they were.
C9_EmptyBrief ==
    [][ (pc = "step2" /\ Strip(campaign_brief') = <<>>)
        => (/\ pc' = "stopped"
            /\ msg'.kind = "info"
            /\ invoked' \cap {"load_model", "embed_and_score"} = {}
            /\ model_cached' = model_cached
            /\ session_state' = session_state
            /\ scored_df' = EmptyDf
            /\ NothingShownNext) ]_vars

\* a submitted brief of whitespace ended a run of a session that holds a result
C9_Witness ==
    /\ pc = "stopped"
    /\ submit_button
    /\ campaign_brief # <<>>
    /\ Strip(campaign_brief) = <<>>
    /\ session_state.keys = AllKeys
    /\ NothingShown

\* C10 as stated: the frame embed_and_score returns has the input's columns in
\* their order and with their values, then similarity_score, and no embedding
\* column; the caller's frame is as it was.
C10_Frame ==
    (pc = "step4" /\ "embed_and_score" \in invoked) =>
        /\ scored_df.columns = creators_df.columns \o <<"similarity_score">>
        /\ "bio_embedding" \notin Range(scored_df.columns)
        /\ Len(scored_df.rows) = Len(creators_df.rows)
        /\ \A i \in 1..Len(creators_df.rows) :
             \A c \in Range(creators_df.columns) : scored_df.rows[i][c] = creators_df.rows[i][c]
        /\ creators_df = [columns |-> uploaded_file.content.columns,
                          rows |-> uploaded_file.content.rows]

====
